---- MODULE Spec2Model ----
(***************************************************************************)
(* Model of the vision-iot-pi5 telemetry bridge.                           *)
(*                                                                         *)
(*   Spec      the publisher process: apps/pi_detector/main.py (main       *)
(*             thread), apps/pi_detector/mqtt_client.py (MqttClient and    *)
(*             the callbacks the broker client runs on its network         *)
(*             thread) and the broker's view of the status topic.          *)
(*   SpecDash  the dashboard: apps/streamlit_dashboard/Home.py (inbound    *)
(*             callback, bounded queue, consumer loop, script re-runs).    *)
(***************************************************************************)
EXTENDS Integers, Sequences, FiniteSets

\* ------------------------------------------------------------------ bounds
MaxAttempts == 20     \* connect attempts that may fail in a row (SpecConnect)
MaxFailures == 2      \* connect attempts that may fail in a row (Spec)
MaxFrames == 2        \* cap.read() calls of the frame loop
MaxFaults == 1        \* lost sessions plus connection acknowledgments with rc # 0
MaxArrivals == 250    \* well-formed messages delivered to the dashboard
MaxMalformed == 1     \* undecodable messages delivered to the dashboard

\* ------------------------------------------------------- program constants
InitialBackoff == 1   \* backoff = 1.0
BackoffCap == 30      \* min(backoff * 2.0, 30.0)
WillQos == 1          \* will_set(..., qos=1, retain=True)
StatusQos == 1        \* publish("status", ..., retain=True, qos=1)
DefaultQos == 0       \* qos: int = 0 / broker.get("qos", 0)
ExitCamera == 2       \* return 2
ExitClean == 0        \* return 0
ExitUncaught == 1     \* interpreter exit status after an uncaught exception

maxsize == 200        \* queue.Queue(maxsize=200)
QosLevels == {DefaultQos, 1}
NoQos == -1           \* qos: Optional[int] = None
NoExit == -1          \* main() has not returned
NoMark == [reads |-> -1, dets |-> -1]
NoWill == [suffix |-> "none", state |-> "none", retain |-> FALSE, qos |-> 0]

VARIABLES
    \* main thread (main.py)
    pc,          \* position of main()
    running,     \* the nonlocal flag handle_sig clears
    handlers,    \* signal.signal(...) has installed handle_sig
    capOpen,     \* the camera is held (cap not released)
    reads,       \* cap.read() calls made
    exitCode,    \* value main() returned / the process exit status
    \* MqttClient (mqtt_client.py)
    cfgQos,      \* self.qos
    cfg,         \* broker section of config.yaml: host, port, base_topic
    sigMark,     \* reads and detections publishes made when handle_sig ran
    framesOk,    \* cap.read() calls that returned a frame
    connected,   \* self.connected
    will,        \* the last will registered with self.cli
    backoff,     \* local backoff of connect_and_loop
    lastSleep,   \* argument of the last time.sleep(backoff)
    failures,    \* connect attempts that raised
    attempts,    \* calls of self.cli.connect
    pubLog,      \* calls of MqttClient.publish, in order
    \* broker client self.cli and its network thread
    netThread,   \* loop_start() has started the network thread
    sock,        \* "none" | "awaiting" (CONNECT sent) | "up" | "down"
    outbox,      \* messages self.cli holds and has not yet transmitted
    acksOk,      \* acknowledgments with rc = 0 handled
    refused,     \* acknowledgments with rc # 0 handled
    drops,       \* unsolicited disconnects
    \* broker
    brokerWill,  \* will the broker holds for the current session
    statusLog,   \* retained messages the broker received on {base}/status
    \* dashboard (Home.py)
    dpc,         \* position of the script run: "run" | "stopped"
    run,         \* number of the current script execution
    queues,      \* msg_q of each script execution
    cbRun,       \* execution whose on_msg the cached client calls
    arrived,     \* well-formed messages delivered to on_msg
    malformed,   \* undecodable messages delivered to on_msg
    rejected,    \* arrival numbers on_msg could not enqueue
    accepted,    \* arrival numbers on_msg enqueued, in order
    popped,      \* values msg_q.get returned, in order
    lastEvt      \* last dashboard event and what it did

pvars == <<pc, running, handlers, capOpen, reads, exitCode, cfgQos, cfg, sigMark, framesOk, connected,
           will, backoff, lastSleep, failures, attempts, pubLog, netThread,
           sock, outbox, acksOk, refused, drops, brokerWill, statusLog>>
dvars == <<dpc, run, queues, cbRun, arrived, malformed, rejected, accepted,
           popped, lastEvt>>
vars == <<pvars, dvars>>

Min(a, b) == IF a < b THEN a ELSE b

RECURSIVE Pow2(_)
Pow2(n) == IF n = 0 THEN 1 ELSE 2 * Pow2(n - 1)

\* ============================================================ MqttClient

\* f"{self.base_topic}/{suffix}"
Topic(suffix) == suffix

\* Mutant of LostWill: the will registered without retain=True
LostWillNotRetained ==
    [suffix |-> Topic("status"), state |-> "lost", retain |-> FALSE, qos |-> WillQos]

\* will_set(f"{base_topic}/status", json.dumps({"state": "lost"}), qos=1, retain=True)
LostWill == [suffix |-> Topic("status"), state |-> "lost", retain |-> TRUE, qos |-> WillQos]

\* self.cli.publish(topic, msg, qos, retain) of the broker client: with no
\* socket a QoS 0 message is refused, a QoS > 0 message is kept for
\* retransmission; otherwise the packet is queued for the network thread.
cli_publish(box, s, m) ==
    IF s \in {"none", "down"} /\ m.qos = 0 THEN box ELSE Append(box, m)

\* MqttClient.publish: builds the message and calls self.cli.publish
\* unconditionally; it returns None. conn is self.connected at the call.
publish(suffix, state, retain, qos, conn, s) ==
    LET m == [suffix |-> Topic(suffix), state |-> state, retain |-> retain,
              qos |-> IF qos = NoQos THEN cfgQos ELSE qos]
    IN /\ pubLog' = Append(pubLog, [msg |-> m, conn |-> conn, handed |-> TRUE,
                                    queued |-> cli_publish(outbox, s, m) # outbox,
                                    result |-> "None"])
       /\ outbox' = cli_publish(outbox, s, m)

\* The broker's retained store of {base}/status: a retained message published
\* there replaces the one it holds
BrokerReceive(log, m) ==
    IF m.suffix = Topic("status") /\ m.retain THEN Append(log, m.state) ELSE log

\* Mutant of NextBackoff: the doubling without the cap
NextBackoffUncapped(b) == b * 2

\* backoff = min(backoff * 2.0, 30.0)
NextBackoff(b) == Min(b * 2, BackoffCap)

Alive == pc \notin {"exited", "dead", "interrupted"}

\* broker = cfg["broker"]: the values main passes to MqttClient unchecked
Configs ==
    [host : {"", "broker"}, port : {0, 1883, 70000}, base_topic : {"", "factory/line1"}]

DefaultConfig == [host |-> "broker", port |-> 1883, base_topic |-> "factory/line1"]

\* self.cli.connect(self.host, self.port, self.keepalive) can succeed only
\* with a non-empty host and a port in 1..65535; otherwise it raises
Connectable(c) == c.host # "" /\ c.port >= 1 /\ c.port <= 65535

\* Mutant of Construct: the constructor without the will_set call
ConstructNoWill ==
    /\ pc = "init"
    /\ connected' = FALSE
    /\ pc' = "connect"
    /\ backoff' = InitialBackoff
    /\ UNCHANGED <<running, handlers, capOpen, reads, exitCode, cfgQos, cfg, sigMark, framesOk, will,
                   lastSleep, failures, attempts, pubLog, netThread, sock, outbox,
                   acksOk, refused, drops, brokerWill, statusLog>>

\* MqttClient.__init__: fields, client, will_set, callbacks
Construct ==
    /\ pc = "init"
    /\ connected' = FALSE
    /\ will' = LostWill
    /\ pc' = "connect"
    /\ backoff' = InitialBackoff
    /\ UNCHANGED <<running, handlers, capOpen, reads, exitCode, cfgQos, cfg, sigMark, framesOk, lastSleep,
                   failures, attempts, pubLog, netThread, sock, outbox, acksOk,
                   refused, drops, brokerWill, statusLog>>

\* connect_and_loop: self.cli.connect(...) returns, loop_start(), return
ConnectOk ==
    /\ pc = "connect"
    /\ Connectable(cfg)
    /\ attempts' = attempts + 1
    /\ sock' = "awaiting"
    /\ netThread' = TRUE
    /\ pc' = "open_camera"
    /\ UNCHANGED <<running, handlers, capOpen, reads, exitCode, cfgQos, cfg, sigMark, framesOk, connected,
                   will, backoff, lastSleep, failures, pubLog, outbox, acksOk,
                   refused, drops, brokerWill, statusLog>>

\* connect_and_loop: self.cli.connect(...) raises; time.sleep(backoff)
ConnectFail(max) ==
    /\ pc = "connect"
    /\ failures < max
    /\ attempts' = attempts + 1
    /\ failures' = failures + 1
    /\ lastSleep' = backoff
    /\ pc' = "sleep"
    /\ UNCHANGED <<running, handlers, capOpen, reads, exitCode, cfgQos, cfg, sigMark, framesOk, connected,
                   will, backoff, pubLog, netThread, sock, outbox, acksOk,
                   refused, drops, brokerWill, statusLog>>

\* connect_and_loop: the sleep returns; backoff = min(backoff * 2.0, 30.0)
SleepDone ==
    /\ pc = "sleep"
    /\ backoff' = NextBackoff(backoff)
    /\ pc' = "connect"
    /\ UNCHANGED <<running, handlers, capOpen, reads, exitCode, cfgQos, cfg, sigMark, framesOk, connected,
                   will, lastSleep, failures, attempts, pubLog, netThread, sock,
                   outbox, acksOk, refused, drops, brokerWill, statusLog>>

\* ================================================================ main()

\* Mutant of OpenCamera: the failure branch returns 0
OpenCameraReturnsZero(ok) ==
    /\ pc = "open_camera"
    /\ IF ok
       THEN /\ capOpen' = TRUE
            /\ pc' = "model_init"
            /\ UNCHANGED exitCode
       ELSE /\ exitCode' = ExitClean
            /\ pc' = "exiting"
            /\ UNCHANGED capOpen
    /\ UNCHANGED <<running, handlers, reads, cfgQos, cfg, sigMark, framesOk, connected,
                   will, backoff, lastSleep, failures, attempts, pubLog, netThread,
                   sock, outbox, acksOk, refused, drops, brokerWill, statusLog>>

\* cap = cv2.VideoCapture(...); if not cap.isOpened(): return 2
OpenCamera(ok) ==
    /\ pc = "open_camera"
    /\ IF ok
       THEN /\ capOpen' = TRUE
            /\ pc' = "model_init"
            /\ UNCHANGED exitCode
       ELSE /\ exitCode' = ExitCamera
            /\ pc' = "exiting"
            /\ UNCHANGED capOpen
    /\ UNCHANGED <<running, handlers, reads, cfgQos, cfg, sigMark, framesOk, connected, will, backoff,
                   lastSleep, failures, attempts, pubLog, netThread, sock, outbox,
                   acksOk, refused, drops, brokerWill, statusLog>>

\* model = OnnxYolo(...): raises RuntimeError when onnxruntime is missing
InitModel(ok) ==
    /\ pc = "model_init"
    /\ IF ok
       THEN /\ pc' = "install"
            /\ UNCHANGED exitCode
       ELSE /\ exitCode' = ExitUncaught
            /\ pc' = "exiting"
    /\ UNCHANGED <<running, handlers, capOpen, reads, cfgQos, cfg, sigMark, framesOk, connected, will,
                   backoff, lastSleep, failures, attempts, pubLog, netThread, sock,
                   outbox, acksOk, refused, drops, brokerWill, statusLog>>

\* running = True; signal.signal(SIGINT, handle_sig); signal.signal(SIGTERM, handle_sig)
InstallHandlers ==
    /\ pc = "install"
    /\ running' = TRUE
    /\ handlers' = TRUE
    /\ pc' = "loop"
    /\ UNCHANGED <<capOpen, reads, exitCode, cfgQos, cfg, sigMark, framesOk, connected, will, backoff,
                   lastSleep, failures, attempts, pubLog, netThread, sock, outbox,
                   acksOk, refused, drops, brokerWill, statusLog>>

\* handle_sig: running = False
handle_sig ==
    /\ handlers
    /\ Alive
    /\ running
    /\ running' = FALSE
    /\ sigMark' = [reads |-> reads, dets |-> Cardinality({i \in 1..Len(pubLog) : pubLog[i].msg.suffix = Topic("detections")})]
    /\ UNCHANGED <<pc, handlers, capOpen, reads, exitCode, cfgQos, cfg, framesOk, connected, will,
                   backoff, lastSleep, failures, attempts, pubLog, netThread, sock,
                   outbox, acksOk, refused, drops, brokerWill, statusLog>>

\* while running:
LoopCheck ==
    /\ pc = "loop"
    /\ pc' = IF running THEN "read" ELSE "release"
    /\ UNCHANGED <<running, handlers, capOpen, reads, exitCode, cfgQos, cfg, sigMark, framesOk, connected,
                   will, backoff, lastSleep, failures, attempts, pubLog, netThread,
                   sock, outbox, acksOk, refused, drops, brokerWill, statusLog>>

\* Mutant of ReadFrame: a failed read is retried at once, not through the
\* while test
ReadFrameRetryInPlace(ok) ==
    /\ pc = "read"
    /\ reads < MaxFrames
    /\ reads' = reads + 1
    /\ framesOk' = IF ok THEN framesOk + 1 ELSE framesOk
    /\ pc' = IF ok THEN "publish" ELSE "read"
    /\ UNCHANGED <<running, handlers, capOpen, exitCode, cfgQos, cfg, sigMark, connected,
                   will, backoff, lastSleep, failures, attempts, pubLog, netThread,
                   sock, outbox, acksOk, refused, drops, brokerWill, statusLog>>

\* Mutant of ReadFrame: a failed read ends main with an error
ReadFrameFailureFatal(ok) ==
    /\ pc = "read"
    /\ reads < MaxFrames
    /\ reads' = reads + 1
    /\ framesOk' = IF ok THEN framesOk + 1 ELSE framesOk
    /\ pc' = IF ok THEN "publish" ELSE "release"
    /\ UNCHANGED <<running, handlers, capOpen, exitCode, cfgQos, cfg, sigMark, connected,
                   will, backoff, lastSleep, failures, attempts, pubLog, netThread,
                   sock, outbox, acksOk, refused, drops, brokerWill, statusLog>>

\* ok, frame = cap.read(); if not ok: time.sleep(0.02); continue
\* else dets = model.predict(frame); payload = {...}
ReadFrame(ok) ==
    /\ pc = "read"
    /\ reads < MaxFrames
    /\ reads' = reads + 1
    /\ framesOk' = IF ok THEN framesOk + 1 ELSE framesOk
    /\ pc' = IF ok THEN "publish" ELSE "loop"
    /\ UNCHANGED <<running, handlers, capOpen, exitCode, cfgQos, cfg, sigMark, connected, will,
                   backoff, lastSleep, failures, attempts, pubLog, netThread, sock,
                   outbox, acksOk, refused, drops, brokerWill, statusLog>>

\* mqttc.publish("detections", payload, retain=False)
PublishDetections ==
    /\ pc = "publish"
    /\ publish("detections", "det", FALSE, NoQos, connected, sock)
    /\ pc' = "waitkey"
    /\ UNCHANGED <<running, handlers, capOpen, reads, exitCode, cfgQos, cfg, sigMark, framesOk, connected,
                   will, backoff, lastSleep, failures, attempts, netThread, sock,
                   acksOk, refused, drops, brokerWill, statusLog>>

\* cv2.imshow(...); if cv2.waitKey(1) == 27: break
WaitKey(esc) ==
    /\ pc = "waitkey"
    /\ pc' = IF esc THEN "release" ELSE "loop"
    /\ UNCHANGED <<running, handlers, capOpen, reads, exitCode, cfgQos, cfg, sigMark, framesOk, connected,
                   will, backoff, lastSleep, failures, attempts, pubLog, netThread,
                   sock, outbox, acksOk, refused, drops, brokerWill, statusLog>>

\* cap.release(); cv2.destroyAllWindows()
Release ==
    /\ pc = "release"
    /\ capOpen' = FALSE
    /\ pc' = "offline"
    /\ UNCHANGED <<running, handlers, reads, exitCode, cfgQos, cfg, sigMark, framesOk, connected, will,
                   backoff, lastSleep, failures, attempts, pubLog, netThread, sock,
                   outbox, acksOk, refused, drops, brokerWill, statusLog>>

\* Mutant of PublishOffline: the offline status published inside the frame
\* loop, which then goes on
PublishOfflineInLoop ==
    /\ pc = "offline"
    /\ publish("status", "offline", TRUE, StatusQos, connected, sock)
    /\ pc' = "loop"
    /\ UNCHANGED <<running, handlers, capOpen, reads, exitCode, cfgQos, cfg, sigMark, framesOk, connected,
                   will, backoff, lastSleep, failures, attempts, netThread, sock,
                   acksOk, refused, drops, brokerWill, statusLog>>

\* mqttc.publish("status", {"state": "offline", ...}, retain=True, qos=1); return 0
PublishOffline ==
    /\ pc = "offline"
    /\ publish("status", "offline", TRUE, StatusQos, connected, sock)
    /\ exitCode' = ExitClean
    /\ pc' = "exiting"
    /\ UNCHANGED <<running, handlers, capOpen, reads, cfgQos, cfg, sigMark, framesOk, connected, will,
                   backoff, lastSleep, failures, attempts, netThread, sock, acksOk,
                   refused, drops, brokerWill, statusLog>>

\* What the end of the process does to the client and the broker: the network
\* thread (a daemon thread) ends with it, unsent messages are lost, and the
\* socket closes with no DISCONNECT packet (main never calls disconnect), so
\* a broker that holds a will for the session publishes it.
Teardown ==
    /\ netThread' = FALSE
    /\ sock' = "none"
    /\ outbox' = <<>>
    /\ brokerWill' = NoWill
    /\ statusLog' = IF sock = "up" THEN BrokerReceive(statusLog, brokerWill) ELSE statusLog

\* raise SystemExit(main()): the interpreter exits
ProcessExit ==
    /\ pc = "exiting"
    /\ pc' = "exited"
    /\ Teardown
    /\ UNCHANGED <<running, handlers, capOpen, reads, exitCode, cfgQos, cfg, sigMark, framesOk, connected,
                   will, backoff, lastSleep, failures, attempts, pubLog, acksOk,
                   refused, drops>>

\* The process is killed (SIGKILL, power loss): no handler runs
Die ==
    /\ Alive
    /\ pc' = "dead"
    /\ Teardown
    /\ UNCHANGED <<running, handlers, capOpen, reads, exitCode, cfgQos, cfg, sigMark, framesOk, connected,
                   will, backoff, lastSleep, failures, attempts, pubLog, acksOk,
                   refused, drops>>

\* SIGINT or SIGTERM before signal.signal(...) has run: the default action
\* ends the process (KeyboardInterrupt is no Exception, so the except clause
\* of connect_and_loop does not catch it); no shutdown path runs
SignalDefault ==
    /\ Alive
    /\ ~handlers
    /\ pc' = "interrupted"
    /\ Teardown
    /\ UNCHANGED <<running, handlers, capOpen, reads, exitCode, cfgQos, cfg, sigMark, framesOk,
                   connected, will, backoff, lastSleep, failures, attempts, pubLog,
                   acksOk, refused, drops>>

\* ==================================================== network thread of cli

\* Mutant of on_connect: the online status published whatever rc is
on_connect_any_rc(rc) ==
    /\ netThread
    /\ sock = "awaiting"
    /\ connected' = (rc = 0)
    /\ IF rc = 0
       THEN /\ sock' = "up"
            /\ brokerWill' = will
            /\ acksOk' = acksOk + 1
            /\ publish("status", "online", TRUE, StatusQos, TRUE, "up")
            /\ UNCHANGED refused
       ELSE /\ refused + drops < MaxFaults
            /\ refused' = refused + 1
            /\ sock' = "down"
            /\ publish("status", "online", TRUE, StatusQos, FALSE, "down")
            /\ UNCHANGED <<brokerWill, acksOk>>
    /\ UNCHANGED <<pc, running, handlers, capOpen, reads, exitCode, cfgQos, cfg, sigMark, framesOk, will,
                   backoff, lastSleep, failures, attempts, netThread, drops,
                   statusLog>>

\* _on_connect(cli, userdata, flags, rc)
on_connect(rc) ==
    /\ netThread
    /\ sock = "awaiting"
    /\ connected' = (rc = 0)
    /\ IF rc = 0
       THEN /\ sock' = "up"
            /\ brokerWill' = will
            /\ acksOk' = acksOk + 1
            /\ publish("status", "online", TRUE, StatusQos, TRUE, "up")
            /\ UNCHANGED refused
       ELSE /\ refused + drops < MaxFaults
            /\ refused' = refused + 1
            /\ sock' = "down"
            /\ UNCHANGED <<brokerWill, acksOk, pubLog, outbox>>
    /\ UNCHANGED <<pc, running, handlers, capOpen, reads, exitCode, cfgQos, cfg, sigMark, framesOk, will,
                   backoff, lastSleep, failures, attempts, netThread, drops,
                   statusLog>>

\* Mutant of on_disconnect: the callback leaves self.connected as it was
on_disconnect_keeps_flag ==
    /\ netThread
    /\ sock = "up"
    /\ refused + drops < MaxFaults
    /\ drops' = drops + 1
    /\ sock' = "down"
    /\ brokerWill' = NoWill
    /\ statusLog' = BrokerReceive(statusLog, brokerWill)
    /\ UNCHANGED <<pc, running, handlers, capOpen, reads, exitCode, cfgQos, cfg, sigMark,
                   framesOk, connected, will, backoff, lastSleep, failures, attempts,
                   pubLog, netThread, outbox, acksOk, refused>>

\* _on_disconnect(cli, userdata, rc): the session is lost; the broker, which
\* saw no DISCONNECT, publishes the will it holds
on_disconnect ==
    /\ netThread
    /\ sock = "up"
    /\ refused + drops < MaxFaults
    /\ drops' = drops + 1
    /\ connected' = FALSE
    /\ sock' = "down"
    /\ brokerWill' = NoWill
    /\ statusLog' = BrokerReceive(statusLog, brokerWill)
    /\ UNCHANGED <<pc, running, handlers, capOpen, reads, exitCode, cfgQos, cfg, sigMark, framesOk, will,
                   backoff, lastSleep, failures, attempts, pubLog, netThread,
                   outbox, acksOk, refused>>

\* loop_start(): the network thread reconnects after a lost session; only
\* QoS > 0 messages survive in the client
NetReconnect ==
    /\ netThread
    /\ sock = "down"
    /\ sock' = "awaiting"
    /\ outbox' = SelectSeq(outbox, LAMBDA m : m.qos > 0)
    /\ UNCHANGED <<pc, running, handlers, capOpen, reads, exitCode, cfgQos, cfg, sigMark, framesOk,
                   connected, will, backoff, lastSleep, failures, attempts, pubLog,
                   netThread, acksOk, refused, drops, brokerWill, statusLog>>

\* loop_start(): the network thread transmits the next queued message; the
\* broker stores a retained status message
NetSend ==
    /\ netThread
    /\ sock = "up"
    /\ outbox # <<>>
    /\ outbox' = Tail(outbox)
    /\ statusLog' = BrokerReceive(statusLog, Head(outbox))
    /\ UNCHANGED <<pc, running, handlers, capOpen, reads, exitCode, cfgQos, cfg, sigMark, framesOk,
                   connected, will, backoff, lastSleep, failures, attempts, pubLog,
                   netThread, sock, acksOk, refused, drops, brokerWill>>

PInit ==
    /\ pc = "init"
    /\ running = FALSE
    /\ handlers = FALSE
    /\ capOpen = FALSE
    /\ reads = 0
    /\ exitCode = NoExit
    /\ cfgQos \in QosLevels
    /\ sigMark = NoMark
    /\ framesOk = 0
    /\ connected = FALSE
    /\ will = NoWill
    /\ backoff = InitialBackoff
    /\ lastSleep = 0
    /\ failures = 0
    /\ attempts = 0
    /\ pubLog = <<>>
    /\ netThread = FALSE
    /\ sock = "none"
    /\ outbox = <<>>
    /\ acksOk = 0
    /\ refused = 0
    /\ drops = 0
    /\ brokerWill = NoWill
    /\ statusLog = <<>>

\* ====================================================== Home.py (dashboard)

\* json.loads(msg.payload.decode()): the decoded value, or an exception when
\* the bytes are not UTF-8 or the text is not JSON
Decode(payload) ==
    IF payload.kind = "json"
    THEN [raised |-> FALSE, data |-> payload.id]
    ELSE [raised |-> TRUE, data |-> 0]

\* queue.Queue.full(): 0 < maxsize <= qsize
q_full(q) == 0 < maxsize /\ maxsize <= Len(q)

\* Mutant of q_get: the newest entry is taken first
q_get_newest(q) == <<q[Len(q)], SubSeq(q, 1, Len(q) - 1)>>

\* queue.Queue.get: the oldest entry and what is left
q_get(q) == <<Head(q), Tail(q)>>

\* lines 4-26 of one execution of the script: msg_q = queue.Queue(maxsize=200);
\* mqtt_client() creates the client (c.on_message = on_msg of this execution)
\* only when st.cache_resource holds none
ScriptStart ==
    /\ dpc = "start"
    /\ run' = run + 1
    /\ queues' = Append(queues, <<>>)
    /\ cbRun' = IF cbRun = 0 THEN run + 1 ELSE cbRun
    /\ dpc' = "poll"
    /\ lastEvt' = "start"
    /\ UNCHANGED <<arrived, malformed, rejected, accepted, popped>>

\* Mutant of on_msg: a full queue drops its oldest entry to take the new one
on_msg_evict(payload) ==
    /\ cbRun > 0
    /\ IF Decode(payload).raised
       THEN /\ malformed < MaxMalformed
            /\ malformed' = malformed + 1
            /\ lastEvt' = "undecodable"
            /\ UNCHANGED <<queues, arrived, rejected, accepted>>
       ELSE /\ arrived < MaxArrivals
            /\ arrived' = arrived + 1
            /\ queues' = [queues EXCEPT ![cbRun] =
                             Append(IF q_full(@) THEN Tail(@) ELSE @, Decode(payload).data)]
            /\ accepted' = Append(accepted, Decode(payload).data)
            /\ lastEvt' = "enqueued"
            /\ UNCHANGED <<rejected, malformed>>
    /\ UNCHANGED <<dpc, run, cbRun, popped>>

\* Mutant of on_msg: the put is made whether or not the payload decoded
on_msg_put_always(payload) ==
    /\ cbRun > 0
    /\ IF Decode(payload).raised
       THEN /\ malformed < MaxMalformed
            /\ malformed' = malformed + 1
            /\ lastEvt' = "undecodable"
            /\ queues' = [queues EXCEPT ![cbRun] =
                             IF q_full(@) THEN @ ELSE Append(@, Decode(payload).data)]
            /\ UNCHANGED <<arrived, rejected, accepted>>
       ELSE /\ arrived < MaxArrivals
            /\ arrived' = arrived + 1
            /\ IF q_full(queues[cbRun])
               THEN /\ rejected' = Append(rejected, Decode(payload).data)
                    /\ lastEvt' = "rejected"
                    /\ UNCHANGED <<queues, accepted>>
               ELSE /\ queues' = [queues EXCEPT ![cbRun] = Append(@, Decode(payload).data)]
                    /\ accepted' = Append(accepted, Decode(payload).data)
                    /\ lastEvt' = "enqueued"
                    /\ UNCHANGED rejected
            /\ UNCHANGED malformed
    /\ UNCHANGED <<dpc, run, cbRun, popped>>

\* on_msg(cli, userdata, msg) on the client's network thread: it writes to the
\* msg_q of the execution that defined it; every exception is swallowed
on_msg(payload) ==
    /\ cbRun > 0
    /\ IF Decode(payload).raised
       THEN /\ malformed < MaxMalformed
            /\ malformed' = malformed + 1
            /\ lastEvt' = "undecodable"
            /\ UNCHANGED <<queues, arrived, rejected, accepted>>
       ELSE /\ arrived < MaxArrivals
            /\ arrived' = arrived + 1
            /\ IF q_full(queues[cbRun])
               THEN /\ rejected' = Append(rejected, Decode(payload).data)
                    /\ lastEvt' = "rejected"
                    /\ UNCHANGED <<queues, accepted>>
               ELSE /\ queues' = [queues EXCEPT ![cbRun] = Append(@, Decode(payload).data)]
                    /\ accepted' = Append(accepted, Decode(payload).data)
                    /\ lastEvt' = "enqueued"
                    /\ UNCHANGED rejected
            /\ UNCHANGED malformed
    /\ UNCHANGED <<dpc, run, cbRun, popped>>

\* data = msg_q.get(timeout=1) returns a value; the metrics are set and
\* st.experimental_rerun() ends this execution and starts the next
GetValue ==
    /\ dpc = "poll"
    /\ queues[run] # <<>>
    /\ popped' = Append(popped, q_get(queues[run])[1])
    /\ queues' = [queues EXCEPT ![run] = q_get(queues[run])[2]]
    /\ lastEvt' = "shown"
    /\ dpc' = "start"
    /\ UNCHANGED <<run, cbRun, arrived, malformed, rejected, accepted>>

\* msg_q.get(timeout=1) raises queue.Empty; except Exception: st.stop()
GetTimeout ==
    /\ dpc = "poll"
    /\ queues[run] = <<>>
    /\ lastEvt' = "timeout"
    /\ dpc' = "stopped"
    /\ UNCHANGED <<run, queues, cbRun, arrived, malformed, rejected, accepted, popped>>

DInit ==
    /\ dpc = "start"
    /\ run = 0
    /\ queues = <<>>
    /\ cbRun = 0
    /\ arrived = 0
    /\ malformed = 0
    /\ rejected = <<>>
    /\ accepted = <<>>
    /\ popped = <<>>
    /\ lastEvt = "none"

\* the messages the broker delivers to the dashboard: the next well-formed
\* one carries its arrival number
Payloads == {[kind |-> "json", id |-> arrived + 1], [kind |-> "garbage", id |-> 0]}

\* config.yaml as shipped: a reachable broker address and the default topic
Init == PInit /\ cfg = DefaultConfig /\ DInit

\* any config.yaml: host, port and base_topic possibly empty or out of range
InitConfig == PInit /\ cfg \in Configs /\ DInit

Next ==
    \/ (Construct /\ UNCHANGED dvars)
    \/ (ConnectOk /\ UNCHANGED dvars)
    \/ (ConnectFail(MaxFailures) /\ UNCHANGED dvars)
    \/ (SleepDone /\ UNCHANGED dvars)
    \/ (\E ok \in BOOLEAN : OpenCamera(ok) /\ UNCHANGED dvars)
    \/ (\E ok \in BOOLEAN : InitModel(ok) /\ UNCHANGED dvars)
    \/ (InstallHandlers /\ UNCHANGED dvars)
    \/ (handle_sig /\ UNCHANGED dvars)
    \/ (LoopCheck /\ UNCHANGED dvars)
    \/ (\E ok \in BOOLEAN : ReadFrame(ok) /\ UNCHANGED dvars)
    \/ (PublishDetections /\ UNCHANGED dvars)
    \/ (\E esc \in BOOLEAN : WaitKey(esc) /\ UNCHANGED dvars)
    \/ (Release /\ UNCHANGED dvars)
    \/ (PublishOffline /\ UNCHANGED dvars)
    \/ (ProcessExit /\ UNCHANGED dvars)
    \/ (Die /\ UNCHANGED dvars)
    \/ (SignalDefault /\ UNCHANGED dvars)
    \/ (\E rc \in {0, 5} : on_connect(rc) /\ UNCHANGED dvars)
    \/ (on_disconnect /\ UNCHANGED dvars)
    \/ (NetReconnect /\ UNCHANGED dvars)
    \/ (NetSend /\ UNCHANGED dvars)

Spec == Init /\ [][Next]_vars

\* connect_and_loop alone, over long runs of failed attempts
NextConnect ==
    \/ (Construct /\ UNCHANGED dvars)
    \/ (ConnectOk /\ UNCHANGED dvars)
    \/ (ConnectFail(MaxAttempts) /\ UNCHANGED dvars)
    \/ (SleepDone /\ UNCHANGED dvars)
    \/ (pc \in {"init", "connect", "sleep"} /\ Die /\ UNCHANGED dvars)

SpecConnect == Init /\ [][NextConnect]_vars

\* MqttClient construction and connect_and_loop over any configuration
SpecConfig == InitConfig /\ [][NextConnect]_vars

NextDash ==
    \/ (ScriptStart /\ UNCHANGED pvars)
    \/ (\E payload \in Payloads : on_msg(payload) /\ UNCHANGED pvars)
    \/ (GetValue /\ UNCHANGED pvars)
    \/ (GetTimeout /\ UNCHANGED pvars)

SpecDash == Init /\ [][NextDash]_vars

\* ================================================================ claims

Last(q) == q[Len(q)]
IsPrefix(a, b) == Len(a) <= Len(b) /\ SubSeq(b, 1, Len(a)) = a
Calls(state) == {i \in 1..Len(pubLog) : pubLog[i].msg.state = state}
ShutdownObserved == (handlers /\ ~running) \/ pc \in {"release", "offline", "exiting", "exited"}

\* C1: a publish issued while the connected flag is false hands nothing to the
\* broker client and leaves nothing queued in it for later delivery.
C1_DisconnectedPublishHandsNothing ==
    \A i \in 1..Len(pubLog) :
        ~pubLog[i].conn => (~pubLog[i].handed /\ ~pubLog[i].queued)

\* C2: the result of a publish issued while not connected reports a dropped
\* outcome, one that differs from the result of a publish that was sent.
C2_DisconnectedPublishReportsDropped ==
    \A i, j \in 1..Len(pubLog) :
        (~pubLog[i].conn /\ pubLog[j].conn) => pubLog[i].result # pubLog[j].result

\* C3: the sleep after the k-th consecutive connect failure is
\* min(1 * 2^(k-1), 30), and connect_and_loop is left only by a successful
\* attempt, never by giving up.
C3_BackoffSchedule ==
    /\ failures >= 1 => lastSleep = Min(1 * Pow2(failures - 1), 30)
    /\ pc = "sleep" => lastSleep <= 30
    /\ pc \notin {"init", "connect", "sleep", "dead"} => attempts = failures + 1

C3_Witness == pc = "sleep" /\ failures = 20 /\ lastSleep = 30

\* C4: after a clean shutdown of a connected publisher the last retained
\* status at the broker is offline.
C4_CleanShutdownLeavesOffline ==
    (pc = "exited" /\ exitCode = ExitClean /\ ~running /\ connected)
        => (statusLog # <<>> /\ Last(statusLog) = "offline")

\* C5: no publish to the detections suffix follows the publish of the offline
\* status, which is issued with retain=true and qos >= 1 once the frame loop
\* has been left.
C5_OfflineAfterLastDetection ==
    \A i \in Calls("offline") :
        /\ pubLog[i].msg.suffix = "status"
        /\ pubLog[i].msg.retain
        /\ pubLog[i].msg.qos >= 1
        /\ pc \in {"exiting", "exited", "dead"}
        /\ \A j \in 1..Len(pubLog) : j > i => pubLog[j].msg.suffix # "detections"

C5_Witness ==
    /\ Len(pubLog) >= 2
    /\ Last(pubLog).msg.state = "offline"
    /\ \E j \in 1..Len(pubLog) : pubLog[j].msg.suffix = "detections"

\* C6: every acknowledgment with rc = 0 sets the connected flag and publishes
\* exactly one online status (status suffix, retain=true, qos=1); a failed
\* attempt or an acknowledgment with rc # 0 publishes none. Two failed
\* attempts followed by a successful third give exactly one online publish,
\* after the third attempt.
C6_OneOnlinePerAck ==
    /\ Cardinality(Calls("online")) = acksOk
    /\ \A i \in Calls("online") :
          /\ pubLog[i].msg.suffix = "status"
          /\ pubLog[i].msg.retain
          /\ pubLog[i].msg.qos = 1
          /\ pubLog[i].conn
    /\ sock = "up" => connected
    /\ Calls("online") # {} => attempts = failures + 1
    /\ (failures = 2 /\ attempts = 3 /\ sock = "up" /\ drops = 0 /\ refused = 0)
          => Cardinality(Calls("online")) = 1

C6_Witness ==
    /\ failures = 2
    /\ attempts = 3
    /\ connected
    /\ Cardinality(Calls("online")) = 1

\* C7: whenever a connect attempt has been made, the first one and every
\* retry, the last will (status topic, state lost, QoS 1, retained) is already
\* registered with the client, and it is the will the broker holds for an
\* established session.
C7_WillBeforeConnect ==
    /\ (attempts > 0 \/ sock # "none")
          => will = [suffix |-> "status", state |-> "lost", retain |-> TRUE, qos |-> 1]
    /\ sock = "up"
          => brokerWill = [suffix |-> "status", state |-> "lost", retain |-> TRUE, qos |-> 1]

C7_Witness == failures >= 2 /\ sock = "up" /\ brokerWill.state = "lost"

\* C8: no queue ever holds more than 200 entries, and a message that arrives
\* while the callback's queue is full is rejected: the callback returns and
\* every queue is left as it was.
C8_QueueBoundedRejectNewest ==
    /\ [](\A r \in 1..Len(queues) : Len(queues[r]) <= 200)
    /\ [][(arrived' = arrived + 1 /\ Len(queues[cbRun]) = 200)
            => (queues' = queues /\ lastEvt' = "rejected")]_vars

C8_Witness ==
    /\ lastEvt = "rejected"
    /\ Len(queues[cbRun]) = 200
    /\ popped # <<>>

\* C9: with no pop so far the queue holds the first min(M, 200) arrivals in
\* arrival order and exactly max(M - 200, 0) were rejected; the consumer
\* receives messages in the order in which they were accepted.
C9_FifoRejectNewest ==
    /\ (cbRun > 0 /\ popped = <<>>) =>
          /\ queues[cbRun] = [i \in 1..Min(arrived, 200) |-> i]
          /\ Len(rejected) = (IF arrived > 200 THEN arrived - 200 ELSE 0)
          /\ rejected = [i \in 1..Len(rejected) |-> 200 + i]
    /\ IsPrefix(popped, accepted)

C9_Witness ==
    /\ arrived = 250
    /\ popped = <<>>
    /\ Len(rejected) = 50
    /\ Len(queues[cbRun]) = 200

\* C10: when the process dies while connected, before any shutdown was
\* observed, it has published no offline status and the broker's retained
\* status becomes the last will, lost.
C10_DeathDeliversLastWill ==
    [][(pc' = "dead" /\ pc # "dead" /\ connected /\ ~ShutdownObserved)
         => /\ Calls("offline")' = {}
            /\ statusLog' # <<>>
            /\ Last(statusLog') = "lost"]_vars

C10_Witness ==
    /\ pc = "dead"
    /\ connected
    /\ capOpen
    /\ Calls("offline") = {}
    /\ ~ShutdownObserved
    /\ statusLog # <<>>
    /\ Last(statusLog) = "lost"
    /\ Len(statusLog) >= 2

Dets == {i \in 1..Len(pubLog) : pubLog[i].msg.suffix = "detections"}
ValidConfig(c) == c.host # "" /\ c.base_topic # "" /\ c.port >= 1 /\ c.port <= 65535

\* C11: the orchestrator's call to connect returns without waiting for a
\* successful connection: while no attempt has succeeded the main thread is
\* not held in the retry loop, so it goes on to open the camera.
C11_ConnectDoesNotBlockStartup ==
    (Alive /\ failures > 0 /\ attempts = failures) => pc \notin {"connect", "sleep"}

\* C12: a shutdown requested while connect attempts keep failing is taken by
\* the retry loop: when the process ends from there, the request was recorded
\* in the shutdown flag and main returned.
C12_RetryLoopChecksShutdownFlag ==
    (~Alive /\ pc # "dead" /\ failures > 0 /\ attempts = failures)
        => (handlers /\ ~running /\ exitCode # NoExit)

\* C13: with an empty host, an empty base_topic or a port outside 1..65535
\* the publisher is never set up: no last will is registered and no connect
\* attempt is made.
C13_InvalidConfigRejected ==
    ~ValidConfig(cfg) => (will = NoWill /\ attempts = 0)

C15_MalformedDroppedSilently ==
    [][/\ (malformed' = malformed + 1) =>
             /\ queues' = queues
             /\ accepted' = accepted
             /\ rejected' = rejected
             /\ cbRun' = cbRun
             /\ dpc' = dpc
             /\ lastEvt' = "undecodable"
       /\ (malformed > 0 /\ arrived' = arrived + 1 /\ ~q_full(queues[cbRun])) =>
             /\ queues'[cbRun] = Append(queues[cbRun], arrived + 1)
             /\ lastEvt' = "enqueued"]_vars

C15_Witness ==
    /\ malformed = 1
    /\ lastEvt = "enqueued"
    /\ Len(accepted) >= 2
    /\ Last(queues[cbRun]) = arrived

\* C16: a poll of the queue that times out leaves the consumer loop polling.
C16_TimeoutRepolls == lastEvt = "timeout" => dpc = "poll"

\* C17: the offline status (Draining) is published before the camera and the
\* windows are released (Stopped): once the camera opened for the frame loop
\* is released, the offline publish has been issued.
C17_OfflineBeforeRelease ==
    (handlers /\ ~capOpen) => Calls("offline") # {}

\* C18: self.connected changes only in the connect and disconnect callbacks
\* of the network thread: a lost session clears it, only an acknowledgment
\* with rc = 0 sets it, no step of main (publish included) changes it, and
\* main calls connect only inside connect_and_loop, never after a session
\* existed.
C18_ConnectionStateOwnedByCallbacks ==
    [][/\ (connected' # connected) =>
             /\ pc' = pc
             /\ netThread
             /\ (connected' => acksOk' = acksOk + 1)
             /\ (~connected' => drops' = drops + 1)
       /\ (drops' = drops + 1) => ~connected'
       /\ (acksOk' = acksOk + 1) => connected'
       /\ (refused' = refused + 1) => ~connected'
       /\ (pc' # pc) => connected' = connected
       /\ (Len(pubLog') > Len(pubLog) /\ acksOk' = acksOk) => connected' = connected
       /\ (attempts' # attempts) => (pc = "connect" /\ acksOk = 0 /\ drops = 0)]_vars

C18_Witness ==
    /\ drops = 1
    /\ acksOk = 2
    /\ connected
    /\ attempts = failures + 1
    /\ Dets # {}

\* C19: once handle_sig has run, at most one more cap.read() is made and at
\* most one more detections message is published (those of the iteration in
\* progress), and the loop is never back at a read with one already made
\* since the signal.
C19_SignalObservedWithinOneIteration ==
    sigMark # NoMark =>
        /\ reads <= sigMark.reads + 1
        /\ Cardinality(Dets) <= sigMark.dets + 1
        /\ pc = "read" => reads = sigMark.reads
        /\ pc = "publish" => Cardinality(Dets) = sigMark.dets

C19_Witness ==
    /\ sigMark # NoMark
    /\ reads = sigMark.reads + 1
    /\ Cardinality(Dets) = sigMark.dets + 1
    /\ sigMark.reads >= 1
    /\ pc = "exited"

\* C20: a failed read publishes nothing, ends nothing and leads back to the
\* while test; each frame read is followed by exactly one publish on
\* detections, with retain=false.
C20_ReadFailureNotFatal ==
    /\ [](/\ pc \in {"loop", "read", "waitkey", "release", "offline", "exiting", "exited"}
              => Cardinality(Dets) = framesOk
          /\ pc = "publish" => Cardinality(Dets) + 1 = framesOk
          /\ \A i \in Dets : ~pubLog[i].msg.retain /\ pubLog[i].msg.state = "det")
    /\ [][(reads' = reads + 1 /\ framesOk' = framesOk) =>
             (pc' = "loop" /\ pubLog' = pubLog /\ exitCode' = exitCode /\ capOpen')]_vars

C20_Witness ==
    /\ reads = 2
    /\ framesOk = 1
    /\ Cardinality(Dets) = 1
    /\ pc = "waitkey"

\* C21: across re-executions of the script the callback and the consumer
\* loop use the same queue, so every queue that holds an accepted message is
\* the one the consumer loop reads.
C21_AcceptedMessagesReachConsumer ==
    /\ cbRun > 0 => cbRun = run
    /\ \A r \in 1..Len(queues) : queues[r] # <<>> => r = run

====
